---- MODULE Spec2Model ----
(***************************************************************************)
(* Model of clippy_lints/src/identity_op.rs: the IDENTITY_OP late lint     *)
(* pass.  The traversal driver hands one expression at a time to           *)
(* check_expr, which dispatches on the binary operator and calls check on  *)
(* the operand(s) that may hold the operator's identity element.           *)
(*                                                                         *)
(* A u128 is represented by the set of positions of its one-bits           *)
(* (bit 0 = least significant), so that shifts and equality are exact for  *)
(* every width up to 128 bits.                                             *)
(***************************************************************************)
EXTENDS Integers, Sequences, FiniteSets, TLC

\* ------------------------------------------------------------------ bounds
\* Small constants 0 .. MaxSmall are offered as operand values.
MaxSmall == 2

\* ------------------------------------------------------- machine integers
\* Width of u128 / i128, the representation of Constant::Int and of the
\* values unsext and clip work on.
U128Bits == 128

BitPos == 0 .. (U128Bits - 1)

\* u128 << amt  (bits shifted past bit 127 are lost)
shl(u, amt) == {i + amt : i \in {j \in u : j + amt < U128Bits}}

\* u128 >> amt  (logical shift)
shr(u, amt) == {i - amt : i \in {j \in u : j >= amt}}

\* -1_i128 as u128: every bit set
neg_one_i128 == BitPos

\* !0 (u128): every bit set
not_zero_u128 == BitPos

\* The u128 holding a small natural number n (n < 256).
lit(n) == {i \in 0 .. 7 : (n \div (2 ^ i)) % 2 = 1}

\* utils::unsext(tcx, u, ity): clear the bits above the width of ity.
unsext(u, bits) == shr(shl(u, U128Bits - bits), U128Bits - bits)

\* utils::clip(tcx, u, uty): clear the bits above the width of uty.
clip(u, bits) == shr(shl(u, U128Bits - bits), U128Bits - bits)

\* ------------------------------------------------------------ input space
\* Bit widths of the integer types i8/u8 .. i128/u128 (isize/usize have one
\* of these widths on every target).
IntWidths == {8, 16, 32, 64, 128}

\* cx.tables.expr_ty(e).sty, reduced to what check matches on.
TyInt(w) == [sty |-> "Int", bits |-> w]
TyUint(w) == [sty |-> "Uint", bits |-> w]
TyOther == [sty |-> "Other", bits |-> 0]
Tys == {TyInt(w) : w \in IntWidths} \cup {TyUint(w) : w \in IntWidths} \cup {TyOther}

\* Result of constant_simple(cx, cx.tables, e).
ConstNone == [tag |-> "None", v |-> {}]
ConstOther == [tag |-> "Other", v |-> {}]
ConstInt(v) == [tag |-> "Int", v |-> v]

\* Values offered for Constant::Int: the small numbers and the all-ones
\* pattern of every width.
IntValues == {lit(n) : n \in 0 .. MaxSmall} \cup {0 .. (w - 1) : w \in IntWidths}
Consts == {ConstNone, ConstOther} \cup {ConstInt(v) : v \in IntValues}

\* BinOpKind: the nine operators check_expr names and one it does not.
BinOpKinds == {"Add", "Sub", "Mul", "Div", "BitXor", "BitAnd", "BitOr", "Shl", "Shr", "Rem"}

\* Absent source text (snippet_opt returns None).
NoText == "<none>"

\* An operand sub-expression: what the collaborators answer for it.
Operands(span, text) == [konst : Consts, ty : Tys, span : {span}, text : {text, NoText}]

\* A placeholder operand for expressions that are not binary.
NoOperand(span) == [konst |-> ConstNone, ty |-> TyOther, span |-> span, text |-> NoText]

\* hir::Expr as check_expr sees it.
BinaryExprs == [in_macro : BOOLEAN, kind : {"Binary"}, op : BinOpKinds, span : {"e"},
                left : Operands("left", "x"), right : Operands("right", "y")]
OtherExprs == [in_macro : BOOLEAN, kind : {"Lit", "Unary"}, op : {"Add"}, span : {"e"},
               left : {NoOperand("left")}, right : {NoOperand("right")}]
Exprs == BinaryExprs \cup OtherExprs

\* --------------------------------------------------------------- the lint
\* State threaded through one run of check_expr: the diagnostics handed to
\* span_lint so far and whether unreachable!() was hit.
NoLints == [lints |-> <<>>, panic |-> FALSE]

\* utils::snippet(cx, span, default): the source text of span, or default.
snippet(text, default) == IF text = NoText THEN default ELSE text

\* The grave accent that quotes the snippet in the message (a TLA+ string
\* cannot hold that character; the apostrophe stands for it).
Tick == "'"

\* The format! call that builds the message around the snippet.
message(snip) ==
    "the operation is ineffective. Consider reducing it to " \o Tick \o snip \o Tick

\* Variant of check_value: the catch-all arm does not return; the all-ones
\* value is left at zero for a type that is no integer type.
check_value_no_return(ty) ==
    CASE ty.sty = "Int" -> [ret |-> FALSE, check |-> unsext(neg_one_i128, ty.bits)]
      [] ty.sty = "Uint" -> [ret |-> FALSE, check |-> clip(not_zero_u128, ty.bits)]
      [] OTHER -> [ret |-> FALSE, check |-> {}]

\* The scrutinee of the match on cx.tables.expr_ty(e).sty: the all-ones value
\* of the type of the operand, or ret (early return) for a type that is
\* neither Int nor Uint.
check_value(ty) ==
    CASE ty.sty = "Int" -> [ret |-> FALSE, check |-> unsext(neg_one_i128, ty.bits)]
      [] ty.sty = "Uint" -> [ret |-> FALSE, check |-> clip(not_zero_u128, ty.bits)]
      [] OTHER -> [ret |-> TRUE, check |-> {}]

\* Variant of match_m: the -1 arm compares with the fixed literal !0 instead
\* of the all-ones value of the operand type.
match_m_fixed_ones(m, v, chk) ==
    CASE m = 0 -> IF v = lit(0) THEN "true" ELSE "false"
      [] m = -1 -> IF v = not_zero_u128 THEN "true" ELSE "false"
      [] m = 1 -> IF v = lit(1) THEN "true" ELSE "false"
      [] OTHER -> "panic"

\* match m { 0 => v == 0, -1 => v == check, 1 => v == 1, _ => unreachable!() }
\* The result is panic when the unreachable!() arm is taken.
match_m(m, v, chk) ==
    CASE m = 0 -> IF v = lit(0) THEN "true" ELSE "false"
      [] m = -1 -> IF v = chk THEN "true" ELSE "false"
      [] m = 1 -> IF v = lit(1) THEN "true" ELSE "false"
      [] OTHER -> "panic"

\* Variant of if_let_int: every Some(..) constant is accepted.
if_let_some(k) == k.tag # "None"

\* if let Some(Constant::Int(v)) = constant_simple(cx, cx.tables, e)
if_let_int(k) == k.tag = "Int"

\* fn check(cx, e, m, span, arg); arg is the other operand, whose span is
\* rendered by snippet.  A call after a panic does not happen.
check(st, e, m, span, arg) ==
    IF st.panic THEN st
    ELSE IF ~if_let_int(e.konst) THEN st
    ELSE LET c == check_value(e.ty) IN
         IF c.ret THEN st
         ELSE LET r == match_m(m, e.konst.v, c.check) IN
              CASE r = "panic" -> [st EXCEPT !.panic = TRUE]
                [] r = "true" ->
                     [st EXCEPT !.lints =
                         Append(@, [span |-> span, msg |-> message(snippet(arg.text, ".."))])]
                [] OTHER -> st

\* Variant of arm_add: only the left operand is checked.
arm_add_left_only(st, left, right, span) == check(st, left, 0, span, right)

\* Variant of arm_add: the right operand is checked only when the left one
\* was not reported.
arm_add_dedup(st, left, right, span) ==
    LET s1 == check(st, left, 0, span, right) IN
    IF Len(s1.lints) > Len(st.lints) THEN s1 ELSE check(s1, right, 0, span, left)

\* BinOpKind::Add | BinOpKind::BitOr | BinOpKind::BitXor => { .. }
arm_add(st, left, right, span) ==
    check(check(st, left, 0, span, right), right, 0, span, left)

\* Variant of arm_sub: both operands are checked.
arm_sub_both(st, left, right, span) ==
    check(check(st, left, 0, span, right), right, 0, span, left)

\* Variant of arm_sub: the snippet is taken from the matched operand.
arm_sub_self(st, left, right, span) == check(st, right, 0, span, right)

\* BinOpKind::Shl | BinOpKind::Shr | BinOpKind::Sub => ..
arm_sub(st, left, right, span) == check(st, right, 0, span, left)

\* BinOpKind::Mul => { .. }
arm_mul(st, left, right, span) ==
    check(check(st, left, 1, span, right), right, 1, span, left)

\* Variant of arm_div: both operands are checked.
arm_div_both(st, left, right, span) ==
    check(check(st, left, 1, span, right), right, 1, span, left)

\* Variant of arm_div: a marker that check does not know is passed.
arm_div_m2(st, left, right, span) == check(st, right, 2, span, left)

\* BinOpKind::Div => ..
arm_div(st, left, right, span) == check(st, right, 1, span, left)

\* BinOpKind::BitAnd => { .. }
arm_bitand(st, left, right, span) ==
    check(check(st, left, -1, span, right), right, -1, span, left)

\* match cmp.node { .. }
match_cmp(st, op, left, right, span) ==
    CASE op \in {"Add", "BitOr", "BitXor"} -> arm_add(st, left, right, span)
      [] op \in {"Shl", "Shr", "Sub"} -> arm_sub(st, left, right, span)
      [] op = "Mul" -> arm_mul(st, left, right, span)
      [] op = "Div" -> arm_div(st, left, right, span)
      [] op = "BitAnd" -> arm_bitand(st, left, right, span)
      [] OTHER -> st

\* Variant of macro_guard: the provenance check is skipped.
macro_guard_off(ex) == FALSE

\* if in_macro(e.span) { return; }
macro_guard(ex) == ex.in_macro

\* fn check_expr(&mut self, cx, e)
check_expr(ex) ==
    IF macro_guard(ex) THEN NoLints
    ELSE IF ex.kind = "Binary" THEN match_cmp(NoLints, ex.op, ex.left, ex.right, ex.span)
    ELSE NoLints

\* ---------------------------------------------------------- state machine
VARIABLES
    expr,      \* the expression check_expr is called on
    pc,        \* visit: check_expr not yet called on expr; done: it returned
    lints,     \* diagnostics span_lint received for expr
    panicked   \* check_expr hit unreachable!()

vars == <<expr, pc, lints, panicked>>

Init ==
    /\ expr \in Exprs
    /\ pc = "visit"
    /\ lints = <<>>
    /\ panicked = FALSE

\* The late lint pass is called on the expression.
CheckExpr ==
    /\ pc = "visit"
    /\ LET st == check_expr(expr) IN
         /\ lints' = st.lints
         /\ panicked' = st.panic
    /\ pc' = "done"
    /\ UNCHANGED expr

Next == CheckExpr

Spec == Init /\ [][Next]_vars

TypeOK ==
    /\ expr \in Exprs
    /\ pc \in {"visit", "done"}
    /\ panicked \in BOOLEAN
    /\ Len(lints) <= 2

\* ------------------------------------------------- vocabulary of the claims
\* check_expr returned for a binary expression outside macro expansions.
Linted == pc = "done" /\ expr.kind = "Binary" /\ ~expr.in_macro

\* The operand folds to an integer constant.
IsIntConst(o) == o.konst.tag = "Int"

\* The operand has an integer type.
IsIntTy(o) == o.ty.sty \in {"Int", "Uint"}

\* All-ones for a type of N bits: exactly the N low bits are set.
AllOnesOf(ty) == {i \in BitPos : i < ty.bits}

\* The operand is the integer-typed constant 0 / 1 / all-ones of its type.
IsZero(o) == IsIntConst(o) /\ IsIntTy(o) /\ o.konst.v = {}
IsOne(o) == IsIntConst(o) /\ IsIntTy(o) /\ o.konst.v = {0}
IsAllOnes(o) == IsIntConst(o) /\ IsIntTy(o) /\ o.konst.v = AllOnesOf(o.ty)

\* The diagnostic that suggests reducing the expression to operand o.
Suggestion(o) ==
    [span |-> "e",
     msg |-> IF o.text = NoText
             THEN "the operation is ineffective. Consider reducing it to '..'"
             ELSE "the operation is ineffective. Consider reducing it to '" \o o.text \o "'"]

\* Some emitted diagnostic is d.
Emitted(d) == \E i \in 1 .. Len(lints) : lints[i] = d

\* The operator table of the specification.
ZeroBoth == {"Add", "BitOr", "BitXor"}
ZeroRight == {"Sub", "Shl", "Shr"}
BothSides == ZeroBoth \cup {"Mul", "BitAnd"}
Ruled == BothSides \cup ZeroRight \cup {"Div"}

\* The operand is the identity element of the operator op.
IsIdentity(op, o) ==
    CASE op \in ZeroBoth \cup ZeroRight -> IsZero(o)
      [] op \in {"Mul", "Div"} -> IsOne(o)
      [] op = "BitAnd" -> IsAllOnes(o)
      [] OTHER -> FALSE

\* The rule of op checks the left / the right operand and it matches.
LeftMatches == expr.op \in BothSides /\ IsIdentity(expr.op, expr.left)
RightMatches == expr.op \in Ruled /\ IsIdentity(expr.op, expr.right)

\* ------------------------------------------------------------------ claims
\* C1 as stated: for every integer constant x, each of x + 0, 0 + x, x | 0,
\* 0 | x, x ^ 0, 0 ^ x yields exactly one diagnostic, which suggests x.
C1_ExactlyOneForEveryConstant ==
    (Linted /\ expr.op \in ZeroBoth) =>
        /\ (IsZero(expr.right) /\ IsIntConst(expr.left) /\ IsIntTy(expr.left))
               => lints = <<Suggestion(expr.left)>>
        /\ (IsZero(expr.left) /\ IsIntConst(expr.right) /\ IsIntTy(expr.right))
               => lints = <<Suggestion(expr.right)>>

\* C1 amended: for every integer constant x other than zero, each of x + 0,
\* 0 + x, x | 0, 0 | x, x ^ 0, 0 ^ x yields exactly one diagnostic, which
\* suggests x.
C1_ExactlyOneForNonZeroConstant ==
    (Linted /\ expr.op \in ZeroBoth) =>
        /\ (IsZero(expr.right) /\ IsIntConst(expr.left) /\ IsIntTy(expr.left)
                /\ ~IsZero(expr.left))
               => lints = <<Suggestion(expr.left)>>
        /\ (IsZero(expr.left) /\ IsIntConst(expr.right) /\ IsIntTy(expr.right)
                /\ ~IsZero(expr.right))
               => lints = <<Suggestion(expr.right)>>

\* 1 ^ 0 was linted and the one diagnostic suggests the left operand.
C1_Witness ==
    /\ Linted /\ expr.op = "BitXor"
    /\ IsZero(expr.right) /\ IsOne(expr.left)
    /\ lints = <<Suggestion(expr.left)>>

\* C2 as stated: x - 0, x << 0, x >> 0 yield a diagnostic suggesting x, and
\* 0 - x, 0 << x, 0 >> x yield no diagnostic, for every operand x.
C2_LeftZeroNeverReported ==
    (Linted /\ expr.op \in ZeroRight) =>
        /\ IsZero(expr.right) => Emitted(Suggestion(expr.left))
        /\ IsZero(expr.left) => lints = <<>>

\* C2 amended: for subtract, shift-left and shift-right only the right
\* operand is checked against zero: x - 0, x << 0, x >> 0 yield one
\* diagnostic suggesting x for every operand x, and 0 - x, 0 << x, 0 >> x
\* yield no diagnostic for every operand x that is not itself a constant
\* zero.
C2_OnlyRightZeroReported ==
    (Linted /\ expr.op \in ZeroRight) =>
        /\ IsZero(expr.right) => lints = <<Suggestion(expr.left)>>
        /\ ~IsZero(expr.right) => lints = <<>>

\* 0 << 1 was linted and nothing was reported.
C2_Witness ==
    /\ Linted /\ expr.op = "Shl"
    /\ IsZero(expr.left) /\ IsOne(expr.right)
    /\ lints = <<>>

\* C3 as stated: x * 1, 1 * x and x / 1 yield a diagnostic suggesting x, and
\* 1 / x yields no diagnostic, for every operand x.
C3_LeftOneOfDivNeverReported ==
    /\ (Linted /\ expr.op = "Mul") =>
           /\ IsOne(expr.right) => Emitted(Suggestion(expr.left))
           /\ IsOne(expr.left) => Emitted(Suggestion(expr.right))
    /\ (Linted /\ expr.op = "Div") =>
           /\ IsOne(expr.right) => Emitted(Suggestion(expr.left))
           /\ IsOne(expr.left) => lints = <<>>

\* C3 amended: for multiply both operands are checked against one and for
\* divide only the right operand is: x * 1, 1 * x and x / 1 yield a
\* diagnostic suggesting x for every operand x, and 1 / x yields no
\* diagnostic for every operand x that is not itself a constant one.
C3_MulBothDivRight ==
    /\ (Linted /\ expr.op = "Mul") =>
           /\ IsOne(expr.right) => Emitted(Suggestion(expr.left))
           /\ IsOne(expr.left) => Emitted(Suggestion(expr.right))
           /\ (~IsOne(expr.left) /\ ~IsOne(expr.right)) => lints = <<>>
    /\ (Linted /\ expr.op = "Div") =>
           /\ IsOne(expr.right) => lints = <<Suggestion(expr.left)>>
           /\ ~IsOne(expr.right) => lints = <<>>

\* 1 / 2 was linted and nothing was reported.
C3_Witness ==
    /\ Linted /\ expr.op = "Div"
    /\ IsOne(expr.left) /\ IsIntConst(expr.right) /\ expr.right.konst.v = {1}
    /\ IsIntTy(expr.right)
    /\ lints = <<>>

\* C4: for bitwise-and, an integer-typed constant operand is reported
\* exactly when its value is the all-ones value of its own type (the N low
\* bits set for a signed or unsigned type of N bits), each operand judged by
\* its own type; the left operand is reported first.
C4_BitAndAllOnesPerOperand ==
    (Linted /\ expr.op = "BitAnd") =>
        lints = (IF IsAllOnes(expr.left) THEN <<Suggestion(expr.right)>> ELSE <<>>)
                \o (IF IsAllOnes(expr.right) THEN <<Suggestion(expr.left)>> ELSE <<>>)

\* x & 0xFF with a u8 constant on the right was reported, while the left
\* operand, 0xFF of type u16, was not.
C4_Witness ==
    /\ Linted /\ expr.op = "BitAnd"
    /\ expr.right.konst = ConstInt(0 .. 7) /\ expr.right.ty = TyUint(8)
    /\ expr.left.konst = ConstInt(0 .. 7) /\ expr.left.ty = TyUint(16)
    /\ lints = <<Suggestion(expr.left)>>

\* C5: an expression whose span comes from a macro expansion yields no
\* diagnostic, whatever its operator and operands.
C5_MacroSuppressed == (pc = "done" /\ expr.in_macro) => lints = <<>>

\* x + 0 inside a macro expansion was visited and nothing was reported.
C5_Witness ==
    /\ pc = "done" /\ expr.in_macro /\ expr.kind = "Binary"
    /\ expr.op = "Add" /\ IsZero(expr.right) /\ ~IsIntConst(expr.left)
    /\ lints = <<>>

\* C6: for an operator whose rule checks both sides, when both operands are
\* the identity value exactly two diagnostics are emitted, one per side (the
\* left match first, suggesting the right operand).
C6_BothSidesTwoDiagnostics ==
    (Linted /\ expr.op \in BothSides
        /\ IsIdentity(expr.op, expr.left) /\ IsIdentity(expr.op, expr.right))
    => lints = <<Suggestion(expr.right), Suggestion(expr.left)>>

\* 0 | 0 was linted and two diagnostics were emitted.
C6_Witness ==
    /\ Linted /\ expr.op = "BitOr"
    /\ IsZero(expr.left) /\ IsZero(expr.right)
    /\ Len(lints) = 2

\* C7: an operand that does not fold to an integer constant yields no
\* diagnostic for its side, for every operator, and the other side is still
\* checked: the diagnostics are exactly those of the other side.
C7_NonConstantSideSilent ==
    Linted =>
        /\ ~IsIntConst(expr.left) =>
               lints = IF RightMatches THEN <<Suggestion(expr.left)>> ELSE <<>>
        /\ ~IsIntConst(expr.right) =>
               lints = IF LeftMatches THEN <<Suggestion(expr.right)>> ELSE <<>>

\* f() * 1: the left operand is not a constant, the right one was reported.
C7_Witness ==
    /\ Linted /\ expr.op = "Mul"
    /\ expr.left.konst = ConstNone /\ IsOne(expr.right)
    /\ lints = <<Suggestion(expr.left)>>

\* C8: every emitted diagnostic is anchored at the span of the whole
\* expression and its message is the fixed text around the source text of
\* the other operand: of the right operand when the left one matched, of the
\* left operand when the right one matched, and .. when there is no text.
C8_DiagnosticSpanAndMessage ==
    pc = "done" =>
        /\ \A i \in 1 .. Len(lints) : lints[i].span = expr.span
        /\ Len(lints) = 1 =>
               \/ LeftMatches /\ ~RightMatches /\ lints[1] = Suggestion(expr.right)
               \/ RightMatches /\ ~LeftMatches /\ lints[1] = Suggestion(expr.left)
        /\ Len(lints) = 2 =>
               /\ LeftMatches /\ RightMatches
               /\ lints = <<Suggestion(expr.right), Suggestion(expr.left)>>

\* x - 0 was reported where the left operand has no source text: the
\* message falls back to the placeholder.
C8_Witness ==
    /\ Linted /\ expr.op = "Sub" /\ IsZero(expr.right)
    /\ expr.left.text = NoText /\ expr.right.text = "y"
    /\ Len(lints) = 1
    /\ lints[1].span = "e"
    /\ lints[1].msg = "the operation is ineffective. Consider reducing it to '..'"

\* C9: check_expr never fails: the unreachable!() arm of check is never
\* taken, for every expression.
C9_NeverPanics == ~panicked

\* check compared an integer constant of integer type for x & y and
\* returned normally.
C9_Witness ==
    /\ Linted /\ expr.op = "BitAnd"
    /\ IsIntConst(expr.left) /\ IsIntTy(expr.left)
    /\ IsIntConst(expr.right) /\ IsIntTy(expr.right)
    /\ ~panicked

\* A checked operand folds to the integer constant the zero / one rule of
\* the operator looks for (whatever its type).
FoldsToTarget(op, o) ==
    /\ IsIntConst(o)
    /\ \/ op \in ZeroBoth \cup ZeroRight /\ o.konst.v = {}
       \/ op \in {"Mul", "Div"} /\ o.konst.v = {0}

\* C10 as stated: when the target is zero or one, a checked operand that
\* folds to the target is reported whatever type the type query returns.
C10_ReportedWhateverTheType ==
    (Linted /\ expr.op \in Ruled \ {"BitAnd"}) =>
        /\ FoldsToTarget(expr.op, expr.right) => Emitted(Suggestion(expr.left))
        /\ (expr.op \in BothSides /\ FoldsToTarget(expr.op, expr.left))
               => Emitted(Suggestion(expr.right))

\* C10 amended: when the target is zero or one, a checked operand that folds
\* to the target is reported whenever the type query returns an integer
\* type, whatever its signedness and width; the type is looked up for every
\* target, and an operand whose type is not an integer type is not reported.
C10_ReportedForEveryIntegerType ==
    (Linted /\ expr.op \in Ruled \ {"BitAnd"}) =>
        /\ (FoldsToTarget(expr.op, expr.right) /\ IsIntTy(expr.right))
               => Emitted(Suggestion(expr.left))
        /\ (expr.op \in BothSides /\ FoldsToTarget(expr.op, expr.left)
                /\ IsIntTy(expr.left))
               => Emitted(Suggestion(expr.right))
        /\ (~IsIntTy(expr.right) /\ ~LeftMatches) => lints = <<>>
        /\ (~IsIntTy(expr.left) /\ ~RightMatches) => lints = <<>>

\* x / 1 with the constant one of type i128 was reported, the type of x
\* being no integer type.
C10_Witness ==
    /\ Linted /\ expr.op = "Div"
    /\ FoldsToTarget("Div", expr.right) /\ expr.right.ty = TyInt(128)
    /\ expr.left.ty = TyOther
    /\ lints = <<Suggestion(expr.left)>>
====
